---- MODULE Spec2Model ----
(***************************************************************************)
(* Model of the finboard data-fetching core: the useFetchData hook (its    *)
(* fetch cycle, its two effects and their cleanup) and the parseDataKey    *)
(* path resolver it calls on every response body.                          *)
(*                                                                         *)
(* JavaScript strings that the code inspects character by character (the   *)
(* data key path, object keys, string values) are sequences of one-        *)
(* character strings.  JavaScript values are tagged records.               *)
(***************************************************************************)
EXTENDS Integers, Sequences, FiniteSets, TLC

(***************************************************************************)
(* JavaScript values                                                       *)
(***************************************************************************)
Undefined == [t |-> "undefined"]
Null == [t |-> "null"]
Num(n) == [t |-> "number", n |-> n]
Str(s) == [t |-> "string", s |-> s]
Bool(b) == [t |-> "boolean", b |-> b]
\* an array: its elements in order
Arr(e) == [t |-> "array", e |-> e]
\* an object: its own properties [k, v] in insertion order, keys distinct
Obj(p) == [t |-> "object", p |-> p]

Digits == <<"0", "1", "2", "3", "4", "5", "6", "7", "8", "9">>

IsDigit(c) == \E d \in 1..10 : Digits[d] = c

DigitValue(c) == (CHOOSE d \in 1..10 : Digits[d] = c) - 1

AllDigits(s) == \A p \in 1..Len(s) : IsDigit(s[p])

RECURSIVE DecimalValue(_)
\* the value of a non-empty run of decimal digits
DecimalValue(s) ==
  IF Len(s) = 0 THEN 0
  ELSE 10 * DecimalValue(SubSeq(s, 1, Len(s) - 1)) + DigitValue(s[Len(s)])

RECURSIVE TrimLeft(_)
TrimLeft(s) == IF Len(s) > 0 /\ s[1] = " " THEN TrimLeft(Tail(s)) ELSE s

RECURSIVE TrimRight(_)
TrimRight(s) ==
  IF Len(s) > 0 /\ s[Len(s)] = " " THEN TrimRight(SubSeq(s, 1, Len(s) - 1)) ELSE s

\* Number(attempt) for the strings of this model (digits, spaces, signs,
\* brackets and letters that form no hex, binary, octal, exponent or
\* Infinity literal): white space is trimmed, the empty string is 0, an optionally
\* signed run of digits is its decimal value, anything else is NaN.
ToNumber(s) ==
  LET u == TrimRight(TrimLeft(s))
      body == IF Len(u) > 0 /\ u[1] \in {"-", "+"} THEN Tail(u) ELSE u
      neg == Len(u) > 0 /\ u[1] = "-"
  IN IF Len(u) = 0 THEN [nan |-> FALSE, v |-> 0]
     ELSE IF Len(body) > 0 /\ AllDigits(body)
          THEN [nan |-> FALSE, v |-> IF neg THEN 0 - DecimalValue(body) ELSE DecimalValue(body)]
          ELSE [nan |-> TRUE, v |-> 0]

\* a property name that is a canonical array index: String(n) for n >= 0
IsIndexKey(k) == Len(k) > 0 /\ AllDigits(k) /\ (k[1] = "0" => Len(k) = 1)

LengthKey == <<"l", "e", "n", "g", "t", "h">>

\* Object.prototype.hasOwnProperty.call(current, key), current not null/undefined
HasOwn(current, key) ==
  CASE current.t = "object" -> \E q \in 1..Len(current.p) : current.p[q].k = key
    [] current.t = "array" ->
         \/ key = LengthKey
         \/ IsIndexKey(key) /\ DecimalValue(key) < Len(current.e)
    [] current.t = "string" ->
         \/ key = LengthKey
         \/ IsIndexKey(key) /\ DecimalValue(key) < Len(current.s)
    [] OTHER -> FALSE

\* current[key] for an own property key
GetOwn(current, key) ==
  CASE current.t = "object" ->
         current.p[CHOOSE q \in 1..Len(current.p) : current.p[q].k = key].v
    [] current.t = "array" ->
         IF key = LengthKey THEN Num(Len(current.e))
         ELSE current.e[DecimalValue(key) + 1]
    [] current.t = "string" ->
         IF key = LengthKey THEN Num(Len(current.s))
         ELSE Str(<<current.s[DecimalValue(key) + 1]>>)
    [] OTHER -> Undefined

\* current[idx] for an array and a number idx
GetIndex(current, idx) ==
  IF idx >= 0 /\ idx < Len(current.e) THEN current.e[idx + 1] ELSE Undefined

(***************************************************************************)
(* parseDataKey                                                            *)
(***************************************************************************)
RECURSIVE DigitRunEnd(_, _)
\* the last position of the run of digits of s that starts at position p
\* (p - 1 when s[p] is no digit)
DigitRunEnd(s, p) ==
  IF p <= Len(s) /\ IsDigit(s[p]) THEN DigitRunEnd(s, p + 1) ELSE p - 1

RECURSIVE NormalizeFrom(_, _)
\* keyPath.replace(/\[(\d+)\]/g, '.$1') from position p on
NormalizeFrom(s, p) ==
  IF p > Len(s) THEN <<>>
  ELSE LET q == DigitRunEnd(s, p + 1)
       IN IF s[p] = "[" /\ q >= p + 1 /\ q + 1 <= Len(s) /\ s[q + 1] = "]"
          THEN <<".">> \o SubSeq(s, p + 1, q) \o NormalizeFrom(s, q + 2)
          ELSE <<s[p]>> \o NormalizeFrom(s, p + 1)

\* a parser without the bracket normalization
NormalizeNothing(keyPath) == keyPath

Normalize(keyPath) == NormalizeFrom(keyPath, 1)

\* a path that is not split: the whole path is the only segment
SplitNothing(s) == <<s>>

RECURSIVE Split(_)
\* normalized.split('.')
Split(s) ==
  IF \E p \in 1..Len(s) : s[p] = "."
  THEN LET p == CHOOSE p \in 1..Len(s) :
                  s[p] = "." /\ \A r \in 1..(p - 1) : s[r] # "."
       IN <<SubSeq(s, 1, p - 1)>> \o Split(SubSeq(s, p + 1, Len(s)))
  ELSE <<s>>

RECURSIVE MergedKey(_, _, _)
\* parts[i] . parts[i+1] . ... . parts[j] joined by '.'
MergedKey(parts, i, j) ==
  IF j = i THEN parts[i] ELSE MergedKey(parts, i, j - 1) \o <<".">> \o parts[j]

Min(a, b) == IF a < b THEN a ELSE b

\* a merge loop that also tries the segment joined with the next three
MergeWindowOfFour(parts, i) == (i + 1)..Min(Len(parts), i + 3)

\* a merge loop that tries the segment joined with the next one only
MergeWindowOnlyNext(parts, i) == (i + 1)..Min(Len(parts), i + 1)

\* the positions j the greedy merge tries at part i (1-based; the code's
\* 0-based loop is j = i+1 .. min(parts.length, i+3) - 1)
MergeWindow(parts, i) == (i + 1)..Min(Len(parts), i + 2)

\* history: one iteration of the for loop: the cursor it started from, the
\* parts at..upto it consumed and the branch that consumed them
Step(kind, current, at, upto) ==
  [kind |-> kind, cursor |-> current, at |-> at, upto |-> upto]

\* the loop body with the greedy merge tried before the exact key
BranchMergeFirst(current, parts, i) ==
  LET attempt == parts[i]
      hits == {j \in MergeWindow(parts, i) : HasOwn(current, MergedKey(parts, i, j))}
  IN IF hits # {}
     THEN [kind |-> "merge", upto |-> CHOOSE j \in hits : \A h \in hits : j <= h]
     ELSE IF HasOwn(current, attempt)
     THEN [kind |-> "exact", upto |-> i]
     ELSE IF current.t = "array" /\ ~ToNumber(attempt).nan
     THEN [kind |-> "index", upto |-> i]
     ELSE [kind |-> "notfound", upto |-> i]

\* which branch of the loop body consumes part i at a cursor that is neither
\* null nor undefined, and the last part it consumes: the exact key, the
\* array index, the first merged key of the window, or none
Branch(current, parts, i) ==
  LET attempt == parts[i]
      hits == {j \in MergeWindow(parts, i) : HasOwn(current, MergedKey(parts, i, j))}
  IN IF HasOwn(current, attempt)
     THEN [kind |-> "exact", upto |-> i]
     ELSE IF current.t = "array" /\ ~ToNumber(attempt).nan
     THEN [kind |-> "index", upto |-> i]
     ELSE IF hits # {}
     THEN [kind |-> "merge", upto |-> CHOOSE j \in hits : \A h \in hits : j <= h]
     ELSE [kind |-> "notfound", upto |-> i]

\* the cursor after the branch: current[attempt], current[idx] or
\* current[mergedKey]
Descend(current, parts, i, branch) ==
  IF branch.kind = "index"
  THEN GetIndex(current, ToNumber(parts[i]).v)
  ELSE GetOwn(current, MergedKey(parts, i, branch.upto))

RECURSIVE WalkBacktracking(_, _, _, _)
\* a loop that returns to the merged key when the exact key leads nowhere
WalkBacktracking(current, parts, i, steps) ==
  IF i > Len(parts) THEN [value |-> current, steps |-> steps]
  ELSE IF current.t \in {"null", "undefined"}
  THEN [value |-> Undefined, steps |-> Append(steps, Step("nullish", current, i, i))]
  ELSE LET branch == Branch(current, parts, i)
           step == Step(branch.kind, current, i, branch.upto)
           hits == {j \in MergeWindow(parts, i) : HasOwn(current, MergedKey(parts, i, j))}
           first == WalkBacktracking(Descend(current, parts, i, branch), parts,
                                     branch.upto + 1, Append(steps, step))
       IN IF branch.kind = "notfound"
          THEN [value |-> Undefined, steps |-> Append(steps, step)]
          ELSE IF branch.kind = "exact" /\ first.value = Undefined /\ hits # {}
          THEN LET j == CHOOSE j \in hits : \A h \in hits : j <= h
               IN WalkBacktracking(GetOwn(current, MergedKey(parts, i, j)), parts, j + 1,
                                   Append(steps, Step("merge", current, i, j)))
          ELSE first

RECURSIVE Walk(_, _, _, _)
\* the for loop of parseDataKey from part i on; steps records how each part
\* was consumed
Walk(current, parts, i, steps) ==
  IF i > Len(parts) THEN [value |-> current, steps |-> steps]
  ELSE IF current.t \in {"null", "undefined"}
  THEN [value |-> Undefined, steps |-> Append(steps, Step("nullish", current, i, i))]
  ELSE LET branch == Branch(current, parts, i)
           step == Step(branch.kind, current, i, branch.upto)
       IN IF branch.kind = "notfound"
          THEN [value |-> Undefined, steps |-> Append(steps, step)]
          ELSE Walk(Descend(current, parts, i, branch), parts, branch.upto + 1,
                    Append(steps, step))

\* a parser without `if (!keyPath) return obj`
parseDataKeyTraceAlwaysWalking(obj, keyPath) ==
  Walk(obj, Split(Normalize(keyPath)), 1, <<>>)

parseDataKeyTrace(obj, keyPath) ==
  IF Len(keyPath) = 0 THEN [value |-> obj, steps |-> <<>>]
  ELSE Walk(obj, Split(Normalize(keyPath)), 1, <<>>)

parseDataKey(obj, keyPath) == parseDataKeyTrace(obj, keyPath).value

(***************************************************************************)
(* Bounds and inputs                                                       *)
(***************************************************************************)
\* fetchData invocations per behaviour
MaxCycles == 2
\* re-renders with changed arguments per behaviour
MaxRerenders == 1

KeyAC == <<"a", ".", "c">>
DataKeys == {KeyAC}

Urls == {"", "https://api/q"}

\* an optional option is <<>> when the caller leaves it out, <<v>> otherwise
AutoFetchOptions == {<<>>, <<FALSE>>}
RefreshIntervalOptions == {<<>>, <<0>>, <<60>>}

Arguments ==
  [apiUrl : Urls, dataKey : DataKeys,
   autoFetch : AutoFetchOptions, refreshInterval : RefreshIntervalOptions]

BodyFive == Obj(<<[k |-> <<"a">>, v |-> Obj(<<[k |-> <<"c">>, v |-> Num(5)]>>)]>>)
BodySeven == Obj(<<[k |-> <<"a">>, v |-> Obj(<<[k |-> <<"c">>, v |-> Num(7)]>>)]>>)
\* a body in which the data key addresses nothing
BodyOther == Obj(<<[k |-> <<"d">>, v |-> Num(1)]>>)
\* the bodies of two successful responses; CycleBodies has the others
Bodies == {BodyFive, BodySeven}

\* what the network can answer to one GET: the promise of fetch() rejects,
\* or it resolves to a response whose body is valid JSON (<<value>>) or not
\* (<<>>)
Rejected(isError, message) ==
  [kind |-> "reject", isError |-> isError, message |-> message,
   ok |-> FALSE, status |-> 0, statusText |-> "", body |-> <<>>]

\* the message of the SyntaxError response.json() rejects with when the
\* body is not JSON; the body of the model that is not JSON is <html>
NotJsonMessage == "Unexpected token '<', \"<html>\" is not valid JSON"

Response(status, statusText, body) ==
  [kind |-> "response", isError |-> FALSE,
   message |-> IF body = <<>> THEN NotJsonMessage ELSE "",
   ok |-> (status >= 200 /\ status <= 299), status |-> status,
   statusText |-> statusText, body |-> body]

Answers ==
  {Rejected(TRUE, "Failed to fetch"),
   Response(500, "Internal Server Error", <<>>),
   Response(200, "OK", <<>>)}
  \cup {Response(200, "OK", <<b>>) : b \in Bodies}

(***************************************************************************)
(* useFetchData: state                                                     *)
(***************************************************************************)
VARIABLES
  args,          \* the arguments of the latest render: apiUrl, dataKey, options
  phase,         \* "rendered" (effects not yet run), "mounted", "unmounted"
  fetchedData,   \* useState: data
  isLoading,     \* useState: loading
  errorMessage,  \* useState: error, Null or a message
  inflight,      \* the fetchData calls suspended at an await
  intervals,     \* the active setInterval timers
  cleanup,       \* the timer handle held by the auto-refresh effect's cleanup
  startedBy,     \* history: what started each fetchData call (and, for a
                 \* timer callback, which timer), in order
  completed,     \* history: the outcomes of the last two finished calls
  rerenders,     \* history: number of re-renders with changed arguments
  survivors,     \* history: calls in flight when the interval was switched off
  lastAnswer,    \* history: <<answer>> of the request of the call that finished last
  root,          \* parseDataKey on its own: the obj argument
  path,          \* parseDataKey on its own: the keyPath argument
  resolved,      \* parseDataKey on its own: <<>> before the call, <<trace>> after
  cache,         \* ApiService.cache: the entries [key, data, timestamp]
  requestQueue,  \* ApiService.requestQueue: the entries [key, promise, settled]
  pending,       \* the HTTP requests axios has issued and not yet settled
  clock,         \* Date.now(), in milliseconds
  advances,      \* history: how many times the clock has advanced
  apiCalls,      \* history: the number of calls of fetchWithCache so far
  lastCall,      \* history: <<>>, or <<the last call of fetchWithCache>>
  history,       \* history, per cache key: the last response stored, the last event
  widgets,       \* useDashboardStore: the widget list
  nextId,        \* history: number of widgets ever added
  lastOp         \* history: the last store operation and the list before it

\* the variables of parseDataKey called on its own
resolverVars == <<root, path, resolved>>

\* the variables of the ApiService singleton
apiVars == <<cache, requestQueue, pending, clock, advances, apiCalls, lastCall, history>>

\* the variables of the dashboard store
storeVars == <<widgets, nextId, lastOp>>

\* the variables of one useFetchData hook
hookVars ==
  <<args, phase, fetchedData, isLoading, errorMessage, inflight, intervals,
    cleanup, startedBy, completed, rerenders, survivors, lastAnswer>>

vars == <<hookVars, resolverVars, apiVars, storeVars>>

hookState == <<fetchedData, isLoading, errorMessage>>

\* const { autoFetch = true, refreshInterval = 300 } = options
DefaultRefreshInterval == 300

AutoFetchOf(a) == IF a.autoFetch = <<>> THEN TRUE ELSE a.autoFetch[1]

RefreshIntervalOf(a) ==
  IF a.refreshInterval = <<>> THEN DefaultRefreshInterval ELSE a.refreshInterval[1]

(***************************************************************************)
(* Error messages                                                          *)
(***************************************************************************)
\* `HTTP ${response.status}: ${response.statusText}`
HttpMessage(status, statusText) ==
  [t |-> "message", prefix |-> "HTTP", status |-> status, statusText |-> statusText]

\* err instanceof Error ? err.message : 'Unknown error'
CaughtMessage(isError, message) ==
  [t |-> "message", text |-> IF isError THEN message ELSE "Unknown error"]

RECURSIVE ToDecimalString(_)
\* String(n) for n >= 0
ToDecimalString(n) ==
  IF n < 10 THEN <<Digits[n + 1]>>
  ELSE ToDecimalString(n \div 10) \o <<Digits[(n % 10) + 1]>>

RECURSIVE SortedIndexKeys(_)
\* the integer-like keys of a set of keys, ascending
SortedIndexKeys(ks) ==
  IF ks = {} THEN <<>>
  ELSE LET m == CHOOSE m \in ks : \A o \in ks : DecimalValue(m) <= DecimalValue(o)
       IN <<m>> \o SortedIndexKeys(ks \ {m})

RECURSIVE PlainKeys(_)
\* the keys of a property list that are not integer-like, in insertion order
PlainKeys(p) ==
  IF Len(p) = 0 THEN <<>>
  ELSE (IF IsIndexKey(p[1].k) THEN <<>> ELSE <<p[1].k>>) \o PlainKeys(Tail(p))

\* Object.keys(value) for an object or an array
ObjectKeys(value) ==
  IF value.t = "array" THEN [q \in 1..Len(value.e) |-> ToDecimalString(q - 1)]
  ELSE SortedIndexKeys({value.p[q].k : q \in {q \in 1..Len(value.p) : IsIndexKey(value.p[q].k)}})
       \o PlainKeys(value.p)

\* JavaScript truthiness of a JSON value
Truthy(value) ==
  CASE value.t \in {"null", "undefined"} -> FALSE
    [] value.t = "number" -> value.n # 0
    [] value.t = "string" -> Len(value.s) > 0
    [] value.t = "boolean" -> value.b
    [] OTHER -> TRUE

\* `Data key "${dataKey}" not found. Top-level keys: ${topKeys}`
NotFoundMessage(dataKey, fullResponse) ==
  [t |-> "message", prefix |-> "Data key not found", dataKey |-> dataKey,
   topKeys |-> IF Truthy(fullResponse) /\ fullResponse.t \in {"object", "array"}
               THEN SubSeq(ObjectKeys(fullResponse), 1,
                           Min(10, Len(ObjectKeys(fullResponse))))
               ELSE <<<<"n", "/", "a">>>>]

(***************************************************************************)
(* useFetchData: the fetch cycle                                           *)
(***************************************************************************)
\* who called fetchData: the initial-fetch effect on mount or on a re-render,
\* the caller through refetch, or the callback of timer number timer
Source(by, timer) == [by |-> by, timer |-> timer]

\* parseDataKey has not been called on its own
ResolverIdle ==
  /\ root = Null
  /\ path = <<>>
  /\ resolved = <<>>

\* the ApiService singleton as constructed: empty cache, empty queue
ApiIdle ==
  /\ cache = {}
  /\ requestQueue = {}
  /\ pending = {}
  /\ clock = 0
  /\ advances = 0
  /\ apiCalls = 0
  /\ lastCall = <<>>
  /\ history = [k \in {} |-> 0]

\* the store as created: widgets: []
StoreIdle ==
  /\ widgets = <<>>
  /\ nextId = 0
  /\ lastOp = [op |-> "create"]

Init ==
  /\ args \in Arguments
  /\ phase = "rendered"
  /\ fetchedData = Null
  /\ isLoading = FALSE
  /\ errorMessage = Null
  /\ inflight = {}
  /\ intervals = {}
  /\ cleanup = <<>>
  /\ startedBy = <<>>
  /\ completed = <<>>
  /\ rerenders = 0
  /\ survivors = {}
  /\ lastAnswer = <<>>
  /\ ResolverIdle
  /\ ApiIdle
  /\ StoreIdle

\* a call of fetchData suspended at `await fetch(apiUrl)`; apiUrl and dataKey
\* are the values its closure captured; overlapped records whether another
\* call was in flight at any time during this one; response is <<>> until
\* fetch has resolved, and <<the head of the response>> while the call is
\* suspended at `await response.json()`; before is the data at the time of
\* the call, kept for the properties (the code does not read it)
NewCall(id, apiUrl, dataKey, overlapped) ==
  [id |-> id, apiUrl |-> apiUrl, dataKey |-> dataKey, overlapped |-> overlapped,
   response |-> <<>>, before |-> fetchedData]

\* what React does with the update a useState setter asks for: it becomes
\* the state of a mounted component, and it is dropped when the component
\* has unmounted.  This is the library's part; the hook calls its setters
\* whatever the phase.
SetState(current, value) == IF phase = "unmounted" THEN current ELSE value

\* the three setters of the hook's useState declarations
setFetchedData(value) == fetchedData' = SetState(fetchedData, value)

setIsLoading(value) == isLoading' = SetState(isLoading, value)

setErrorMessage(value) == errorMessage' = SetState(errorMessage, value)

\* fetchData without setErrorMessage(null)
fetchDataKeepingError(apiUrl, dataKey, source) ==
  /\ Len(startedBy) < MaxCycles
  /\ setIsLoading(TRUE)
  /\ errorMessage' = errorMessage
  /\ fetchedData' = fetchedData
  /\ inflight' = {[c EXCEPT !.overlapped = TRUE] : c \in inflight}
                 \cup {NewCall(Len(startedBy) + 1, apiUrl, dataKey, inflight # {})}
  /\ startedBy' = Append(startedBy, source)

\* fetchData with a guard the code does not have: while a call is in flight
\* a further invocation returns without issuing a request
fetchDataOnceInFlight(apiUrl, dataKey, source) ==
  /\ Len(startedBy) < MaxCycles
  /\ setIsLoading(TRUE)
  /\ setErrorMessage(Null)
  /\ fetchedData' = fetchedData
  /\ inflight' = IF inflight # {} THEN inflight
                 ELSE {NewCall(Len(startedBy) + 1, apiUrl, dataKey, FALSE)}
  /\ startedBy' = Append(startedBy, source)

\* fetchData up to its first await: setIsLoading(true), setErrorMessage(null),
\* fetch(apiUrl) issued
fetchData(apiUrl, dataKey, source) ==
  /\ Len(startedBy) < MaxCycles
  /\ setIsLoading(TRUE)
  /\ setErrorMessage(Null)
  /\ fetchedData' = fetchedData
  /\ inflight' = {[c EXCEPT !.overlapped = TRUE] : c \in inflight}
                 \cup {NewCall(Len(startedBy) + 1, apiUrl, dataKey, inflight # {})}
  /\ startedBy' = Append(startedBy, source)

\* no call of fetchData in this step
NoFetch == UNCHANGED <<fetchedData, isLoading, errorMessage, inflight, startedBy>>

\* the outcome of a finished call; cleared records whether its last act was
\* the call setIsLoading(false)
Outcome(call, ok, value, message, cleared) ==
  [id |-> call.id, ok |-> ok, value |-> value, message |-> message,
   overlapped |-> call.overlapped, cleared |-> cleared]

\* the history of outcomes after one more call has finished
Finished(outcome) ==
  IF Len(completed) < 2 THEN Append(completed, outcome)
  ELSE Append(Tail(completed), outcome)

\* a success path with no finally after it: loading is left as it is
SucceedWithoutFinally(call, extracted) ==
  /\ setFetchedData(extracted)
  /\ errorMessage' = errorMessage
  /\ isLoading' = isLoading
  /\ inflight' = inflight \ {call}
  /\ completed' = Finished(Outcome(call, TRUE, extracted, Null, FALSE))

\* a success path that stores only the first value ever resolved
SucceedFirstOnly(call, extracted) ==
  /\ setFetchedData(IF fetchedData = Null THEN extracted ELSE fetchedData)
  /\ errorMessage' = errorMessage
  /\ setIsLoading(FALSE)
  /\ inflight' = inflight \ {call}
  /\ completed' = Finished(Outcome(call, TRUE, extracted, Null, TRUE))

\* setFetchedData(extracted), then finally: setIsLoading(false)
Succeed(call, extracted) ==
  /\ setFetchedData(extracted)
  /\ errorMessage' = errorMessage
  /\ setIsLoading(FALSE)
  /\ inflight' = inflight \ {call}
  /\ completed' = Finished(Outcome(call, TRUE, extracted, Null, TRUE))

\* a try with a finally and no catch: the failure leaves fetchData as a
\* rejected promise and the error state is not written
FailUncaught(call, message) ==
  /\ errorMessage' = errorMessage
  /\ fetchedData' = fetchedData
  /\ setIsLoading(FALSE)
  /\ inflight' = inflight \ {call}
  /\ completed' = Finished(Outcome(call, FALSE, Null, message, TRUE))

\* a catch block with no finally after it: loading is left as it is
FailWithoutFinally(call, message) ==
  /\ setErrorMessage(message)
  /\ fetchedData' = fetchedData
  /\ isLoading' = isLoading
  /\ inflight' = inflight \ {call}
  /\ completed' = Finished(Outcome(call, FALSE, Null, message, FALSE))

\* a catch block that also drops the stale data
FailClearsData(call, message) ==
  /\ setErrorMessage(message)
  /\ setFetchedData(Null)
  /\ setIsLoading(FALSE)
  /\ inflight' = inflight \ {call}
  /\ completed' = Finished(Outcome(call, FALSE, Null, message, TRUE))

\* catch: setErrorMessage(message), then finally: setIsLoading(false)
Fail(call, message) ==
  /\ setErrorMessage(message)
  /\ fetchedData' = fetchedData
  /\ setIsLoading(FALSE)
  /\ inflight' = inflight \ {call}
  /\ completed' = Finished(Outcome(call, FALSE, Null, message, TRUE))

\* what fetch() resolves to when the response is ok: status and status
\* text; the body has not been read
HeadOf(answer) ==
  IF answer.kind = "response" /\ answer.ok
  THEN [answer EXCEPT !.body = <<>>, !.message = ""]
  ELSE answer

\* response.json() is called and the call is suspended at its second
\* await: no setter runs
AwaitJson(call, answer) ==
  /\ inflight' = (inflight \ {call}) \cup {[call EXCEPT !.response = <<HeadOf(answer)>>]}
  /\ UNCHANGED <<fetchedData, isLoading, errorMessage, completed, lastAnswer>>

\* fetchData without the `if (!response.ok)` test: every response is parsed
SettlesIgnoringStatus(call, answer) ==
  /\ call \in inflight
  /\ call.response = <<>>
  /\ IF answer.kind = "reject"
     THEN /\ Fail(call, CaughtMessage(answer.isError, answer.message))
          /\ lastAnswer' = <<answer>>
     ELSE AwaitJson(call, answer)
  /\ UNCHANGED <<args, phase, intervals, cleanup, startedBy, rerenders, survivors,
                  resolverVars, apiVars, storeVars>>

\* the request of a suspended call settles and fetchData resumes after
\* `await fetch(apiUrl)`: a rejection goes to catch and finally, a response
\* that is not ok throws into them, and for an ok response response.json()
\* is called and the call is suspended again
Settles(call, answer) ==
  /\ call \in inflight
  /\ call.response = <<>>
  /\ IF answer.kind = "reject"
     THEN /\ Fail(call, CaughtMessage(answer.isError, answer.message))
          /\ lastAnswer' = <<answer>>
     ELSE IF ~answer.ok
     THEN /\ Fail(call, HttpMessage(answer.status, answer.statusText))
          /\ lastAnswer' = <<answer>>
     ELSE AwaitJson(call, answer)
  /\ UNCHANGED <<args, phase, intervals, cleanup, startedBy, rerenders, survivors,
                  resolverVars, apiVars, storeVars>>

\* the body of the response has been read and fetchData resumes after
\* `await response.json()`: the promise rejects when the body is not JSON,
\* otherwise parseDataKey extracts the value; then catch and finally.
\* answer is the response the call holds, with the body that was read.
Parses(call, answer) ==
  /\ call \in inflight
  /\ call.response = <<HeadOf(answer)>>
  /\ IF answer.body = <<>>
     THEN Fail(call, CaughtMessage(TRUE, answer.message))
     ELSE LET extracted == parseDataKey(answer.body[1], call.dataKey)
          IN IF extracted = Undefined
             THEN Fail(call, NotFoundMessage(call.dataKey, answer.body[1]))
             ELSE Succeed(call, extracted)
  /\ lastAnswer' = <<answer>>
  /\ UNCHANGED <<args, phase, intervals, cleanup, startedBy, rerenders, survivors,
                  resolverVars, apiVars, storeVars>>

(***************************************************************************)
(* useFetchData: effects                                                   *)
(***************************************************************************)
\* the initial-fetch effect without the apiUrl test
InitialFetchEffectIgnoringUrl(a, source) ==
  IF AutoFetchOf(a)
  THEN fetchData(a.apiUrl, a.dataKey, source)
  ELSE NoFetch

\* useEffect(() => { if (autoFetch && apiUrl) fetchData() }, ...)
InitialFetchEffect(a, source) ==
  IF AutoFetchOf(a) /\ a.apiUrl # ""
  THEN fetchData(a.apiUrl, a.dataKey, source)
  ELSE NoFetch

\* the timer setInterval creates; its callback calls the fetchData of the
\* render that created it
Interval(id, a) ==
  [id |-> id, period |-> RefreshIntervalOf(a) * 1000,
   apiUrl |-> a.apiUrl, dataKey |-> a.dataKey]

\* the auto-refresh guard without the apiUrl test
ScheduledByIgnoringUrl(a, id) ==
  IF ~AutoFetchOf(a) \/ RefreshIntervalOf(a) <= 0
  THEN <<>>
  ELSE <<id>>

\* the handles of the timers the auto-refresh effect creates for arguments a
ScheduledBy(a, id) ==
  IF ~AutoFetchOf(a) \/ RefreshIntervalOf(a) <= 0 \/ a.apiUrl = ""
  THEN <<>>
  ELSE <<id>>

\* an effect without cleanup: no timer is ever cleared
ClearIntervalsNothing(timers, handles) == timers

\* return () => clearInterval(interval): the timers left after the cleanup
\* held in handles has run
ClearIntervals(timers, handles) ==
  {iv \in timers : \A h \in 1..Len(handles) : handles[h] # iv.id}

\* the auto-refresh effect runs for arguments a, after its previous cleanup
AutoRefreshEffect(a, id) ==
  /\ intervals' = ClearIntervals(intervals, cleanup)
                  \cup {Interval(ScheduledBy(a, id)[h], a) : h \in 1..Len(ScheduledBy(a, id))}
  /\ cleanup' = ScheduledBy(a, id)

\* first commit: both effects run
Mount ==
  /\ phase = "rendered"
  /\ phase' = "mounted"
  /\ InitialFetchEffect(args, Source("mount", -1))
  /\ AutoRefreshEffect(args, 0)
  /\ UNCHANGED <<args, completed, rerenders, survivors, lastAnswer, resolverVars, apiVars, storeVars>>

\* useCallback(..., [apiUrl, dataKey]): a new fetchData function
FetchDataChanged(a, b) == a.apiUrl # b.apiUrl \/ a.dataKey # b.dataKey

\* dependencies [autoFetch, apiUrl, fetchData]
InitialFetchDepsChanged(a, b) ==
  AutoFetchOf(a) # AutoFetchOf(b) \/ a.apiUrl # b.apiUrl \/ FetchDataChanged(a, b)

\* the dependency list with refreshInterval left out
AutoRefreshDepsWithoutInterval(a, b) ==
  \/ AutoFetchOf(a) # AutoFetchOf(b)
  \/ a.apiUrl # b.apiUrl
  \/ FetchDataChanged(a, b)

\* dependencies [autoFetch, refreshInterval, apiUrl, fetchData]
AutoRefreshDepsChanged(a, b) ==
  \/ AutoFetchOf(a) # AutoFetchOf(b)
  \/ RefreshIntervalOf(a) # RefreshIntervalOf(b)
  \/ a.apiUrl # b.apiUrl
  \/ FetchDataChanged(a, b)

\* the component renders the hook with other arguments; the effects whose
\* dependencies changed are cleaned up and run again
Rerender(a) ==
  /\ phase = "mounted"
  /\ a # args
  /\ rerenders < MaxRerenders
  /\ args' = a
  /\ rerenders' = rerenders + 1
  /\ IF InitialFetchDepsChanged(args, a)
     THEN InitialFetchEffect(a, Source("rerender", -1))
     ELSE NoFetch
  /\ IF AutoRefreshDepsChanged(args, a)
     THEN AutoRefreshEffect(a, rerenders + 1)
     ELSE UNCHANGED <<intervals, cleanup>>
  /\ survivors' = IF RefreshIntervalOf(args) > 0 /\ RefreshIntervalOf(a) <= 0
                  THEN survivors \cup {c.id : c \in inflight}
                  ELSE survivors
  /\ UNCHANGED <<phase, completed, lastAnswer, resolverVars, apiVars, storeVars>>

\* the component unmounts: the effect cleanups run
Unmount ==
  /\ phase = "mounted"
  /\ phase' = "unmounted"
  /\ intervals' = ClearIntervals(intervals, cleanup)
  /\ cleanup' = <<>>
  /\ NoFetch
  /\ UNCHANGED <<args, completed, rerenders, survivors, lastAnswer, resolverVars, apiVars, storeVars>>

\* the caller invokes the returned refetch (Refresh / Retry button)
Refetch ==
  /\ phase = "mounted"
  /\ fetchData(args.apiUrl, args.dataKey, Source("refetch", -1))
  /\ UNCHANGED <<args, phase, intervals, cleanup, completed, rerenders, survivors,
                  lastAnswer, resolverVars, apiVars, storeVars>>

\* an active timer fires: setInterval(() => { fetchData() }, ...)
Tick(iv) ==
  /\ iv \in intervals
  /\ fetchData(iv.apiUrl, iv.dataKey, Source("tick", iv.id))
  /\ UNCHANGED <<args, phase, intervals, cleanup, completed, rerenders, survivors,
                  lastAnswer, resolverVars, apiVars, storeVars>>

Next ==
  \/ Mount
  \/ \E a \in Arguments : Rerender(a)
  \/ Unmount
  \/ Refetch
  \/ \E iv \in intervals : Tick(iv)
  \/ \E call \in inflight : \E answer \in Answers : Settles(call, answer)
  \/ \E call \in inflight : \E answer \in Answers : Parses(call, answer)

Spec == Init /\ [][Next]_vars

TypeOK ==
  /\ args \in Arguments
  /\ phase \in {"rendered", "mounted", "unmounted"}
  /\ isLoading \in BOOLEAN
  /\ Len(startedBy) <= MaxCycles
  /\ rerenders <= MaxRerenders

(***************************************************************************)
(* Properties of the fetch cycle and of the scheduling                     *)
(***************************************************************************)
LastOutcome == completed[Len(completed)]

\* the component is mounted: the updates its setters ask for are applied
Live == phase = "mounted"

CallIds(calls) == {c.id : c \in calls}

\* the step finishes a call of fetchData
Finishes == \E c \in inflight : c.id \notin CallIds(inflight')

\* the call that the step finishes
FinishedCall == CHOOSE c \in inflight : c.id \notin CallIds(inflight')

\* the step invokes fetchData
Invokes == Len(startedBy') = Len(startedBy) + 1

\* the step invokes fetchData from a timer callback
TimerInvokes == Invokes /\ startedBy'[Len(startedBy')].by = "tick"

\* the arguments ask for a recurring timer, as the auto-refresh effect reads them
WantsTimer(a) == AutoFetchOf(a) /\ RefreshIntervalOf(a) > 0 /\ a.apiUrl # ""

\* the setters the run that ended a call has called: the success path calls
\* setFetchedData, the catch block setErrorMessage, finally setIsLoading
SetterCalls(outcome) ==
  (IF outcome.ok THEN {"setFetchedData"} ELSE {"setErrorMessage"})
    \cup (IF outcome.cleared THEN {"setIsLoading"} ELSE {})

\* C1: after the component has unmounted no update of data, error or loading
\* is made, even when a request issued before the unmount settles
\* afterwards: the state stays as it was, and the call that ends then calls
\* no setter (its resolution is a no-op against the torn-down instance).
C1_NoUpdateAfterTeardown ==
  [][phase = "unmounted"
       => /\ hookState' = hookState
          /\ Finishes => SetterCalls(LastOutcome') = {}]_vars

\* C2: data is always the resolved value of the most recently completed
\* successful cycle, or null when none has succeeded: it starts as null,
\* every successful completion stores its resolved value, and no other step
\* changes it; a cycle that fails publishes its message as error and leaves
\* data as it was.  The completions are those of a mounted component; what a
\* completion after the unmount does is the matter of C1.
C2_DataIsLastSuccess ==
  /\ fetchedData = Null
  /\ [][(Live /\ Finishes /\ LastOutcome'.ok) => fetchedData' = LastOutcome'.value]_vars
  /\ [][(Live /\ Finishes /\ ~LastOutcome'.ok)
          => (errorMessage' = LastOutcome'.message /\ fetchedData' = fetchedData)]_vars
  /\ [][~Finishes => fetchedData' = fetchedData]_vars

\* C2 witness: a cycle succeeded, a later one failed, and the stale data is
\* still published next to the error.
C2_Witness ==
  /\ Len(completed) >= 2
  /\ completed[Len(completed) - 1].ok
  /\ ~LastOutcome.ok
  /\ errorMessage = LastOutcome.message
  /\ fetchedData = completed[Len(completed) - 1].value
  /\ fetchedData # Null

\* C3: right after a cycle of a mounted component completes successfully,
\* data is its resolved value and error is null, whatever other cycles did
\* while it was in flight.
C3_SuccessLeavesNoError ==
  [][(Live /\ Finishes /\ LastOutcome'.ok)
       => (fetchedData' = LastOutcome'.value /\ errorMessage' = Null)]_vars

\* C4: once overlapping cycles of a mounted component have all completed,
\* the published result is that of the response that landed last: its value
\* with no error if it succeeded, its message as error if it failed.
C4_LastLandedWins ==
  (Live /\ inflight = {} /\ Len(completed) >= 2 /\ LastOutcome.overlapped)
    => IF LastOutcome.ok
       THEN fetchedData = LastOutcome.value /\ errorMessage = Null
       ELSE errorMessage = LastOutcome.message

\* C5 as stated: re-invocation never puts a second request in flight.
C5_AtMostOneInFlight == Cardinality(inflight) <= 1

\* C5 as amended: every invocation of fetchData (refetch, timer tick or
\* effect) issues one new HTTP request, also while other requests of the
\* same fetcher are in flight.
C5_EveryInvocationIssuesRequest ==
  [][Invokes => (/\ Cardinality(inflight') = Cardinality(inflight) + 1
                 /\ CallIds(inflight) \subseteq CallIds(inflight'))]_vars

\* C5 witness: a refetch made while a request was in flight has put a second
\* request in flight.
C5_Witness ==
  /\ Cardinality(inflight) = 2
  /\ \E c \in inflight : c.id = 2 /\ c.overlapped /\ startedBy[2].by = "refetch"

\* C6: a fetcher owns at most one active timer however its arguments change,
\* none after unmount, and no timer-driven cycle starts after unmount.
C6_AtMostOneTimer ==
  /\ [](Cardinality(intervals) <= 1 /\ (phase = "unmounted" => intervals = {}))
  /\ [][phase = "unmounted" => ~TimerInvokes]_vars

\* C6 witness: the timer created on mount has fired, a re-render has
\* replaced it, and exactly one timer, the one the re-render created, exists.
C6_Witness ==
  /\ rerenders >= 1
  /\ \E i \in 1..Len(startedBy) : startedBy[i] = Source("tick", 0)
  /\ \E iv \in intervals : intervals = {iv} /\ iv.id = rerenders

\* C7 as stated: a timer exists exactly when the interval is positive and
\* apiUrl is non-empty, whatever autoFetch is.
C7_TimerWheneverIntervalAndUrl ==
  phase = "mounted"
    => ((RefreshIntervalOf(args) > 0 /\ args.apiUrl # "") <=> intervals # {})

\* C7 as amended: while mounted, a timer exists exactly when autoFetch is
\* true, the interval is positive and apiUrl is non-empty; its period is the
\* interval in milliseconds and its callback is the fetchData of the
\* current arguments.
C7_TimerIffAutoFetchIntervalUrl ==
  phase = "mounted"
    => /\ WantsTimer(args) <=> intervals # {}
       /\ \A iv \in intervals :
            /\ iv.period = RefreshIntervalOf(args) * 1000
            /\ iv.apiUrl = args.apiUrl
            /\ iv.dataKey = args.dataKey

\* C7 witness: a timer of the current arguments exists and has started a cycle.
C7_Witness ==
  /\ phase = "mounted"
  /\ intervals # {}
  /\ rerenders = 0
  /\ Len(startedBy) = 2
  /\ startedBy[2].by = "tick"

\* C8: with the arguments of creation, a fetcher with autoFetch and a
\* non-empty apiUrl has started exactly one cycle on mount, before any other
\* cycle; otherwise the only cycles started are those refetch started.
C8_InitialCycleOnCreation ==
  (phase # "rendered" /\ rerenders = 0)
    => IF AutoFetchOf(args) /\ args.apiUrl # ""
       THEN /\ Len(startedBy) >= 1
            /\ startedBy[1].by = "mount"
            /\ \A i \in 2..Len(startedBy) : startedBy[i].by # "mount"
       ELSE \A i \in 1..Len(startedBy) : startedBy[i].by = "refetch"

\* C8 witness: the cycle of the mount is in flight and nothing else started.
C8_Witness ==
  /\ phase = "mounted"
  /\ rerenders = 0
  /\ startedBy = <<Source("mount", -1)>>
  /\ \E c \in inflight : c.id = 1 /\ c.apiUrl = args.apiUrl
  /\ isLoading

\* C9: once the interval is 0 no timer exists and no timer-driven cycle
\* starts; the re-render that switches it off keeps every in-flight call
\* where it is, and such a call still finishes by publishing its value or
\* its message and setting loading to false, as long as the component is
\* mounted.
C9_DisableKeepsInflight ==
  /\ []((phase # "rendered" /\ RefreshIntervalOf(args) <= 0) => intervals = {})
  /\ [][RefreshIntervalOf(args) <= 0 => ~TimerInvokes]_vars
  /\ [][(RefreshIntervalOf(args) > 0 /\ RefreshIntervalOf(args') <= 0)
          => (/\ \A c \in inflight : \E d \in inflight' :
                   d.id = c.id /\ d.apiUrl = c.apiUrl /\ d.dataKey = c.dataKey
              /\ fetchedData' = fetchedData)]_vars
  /\ [][\A c \in inflight :
          (c.id \in survivors /\ c.id \notin CallIds(inflight'))
            => /\ Finishes
               /\ LastOutcome'.id = c.id
               /\ LastOutcome'.cleared
               /\ Live => /\ isLoading' = FALSE
                           /\ IF LastOutcome'.ok
                              THEN fetchedData' = LastOutcome'.value
                              ELSE errorMessage' = LastOutcome'.message]_vars

\* C9 witness: the interval is 0, and a call that was in flight when it was
\* switched off has completed and published its value.
C9_Witness ==
  /\ RefreshIntervalOf(args) = 0
  /\ intervals = {}
  /\ Len(completed) >= 1
  /\ LastOutcome.id \in survivors
  /\ LastOutcome.ok
  /\ fetchedData = LastOutcome.value
  /\ ~isLoading

\* C10: after two consecutive successful cycles of a mounted component that
\* overlapped no other cycle and resolved to different values, data is the
\* second value and error is null.
C10_SecondSuccessPublished ==
  (/\ Live
   /\ Len(completed) >= 2
   /\ LastOutcome.ok /\ ~LastOutcome.overlapped
   /\ completed[Len(completed) - 1].ok /\ ~completed[Len(completed) - 1].overlapped
   /\ completed[Len(completed) - 1].value # LastOutcome.value)
    => (fetchedData = LastOutcome.value /\ errorMessage = Null)

\* C10 witness: 5 then 7 were resolved by two cycles one after the other.
C10_Witness ==
  /\ Len(completed) = 2
  /\ completed[1].ok /\ ~completed[1].overlapped /\ completed[1].value = Num(5)
  /\ completed[2].ok /\ ~completed[2].overlapped /\ completed[2].value = Num(7)
  /\ fetchedData = Num(7)
  /\ errorMessage = Null

(***************************************************************************)
(* The fetch cycle against every kind of answer                            *)
(***************************************************************************)
\* the data keys of the hooks below: a dotted path and the empty path
CycleKeys == {KeyAC, <<>>}

\* a hook with a URL, the default autoFetch and a one-minute interval
CycleArguments ==
  [apiUrl : {"https://api/q"}, dataKey : CycleKeys,
   autoFetch : {<<>>}, refreshInterval : {<<60>>}]

\* JSON bodies: objects with and without the key, null, primitives, an array
CycleBodies ==
  {BodyFive, BodyOther, Null, Num(0), Str(<<"c">>), Arr(<<Num(5)>>)}

\* the promise of fetch() rejects with an Error or with another value, the
\* server answers an error status with or without a JSON body, or it answers
\* 200 with a body that is invalid JSON or one of CycleBodies
CycleAnswers ==
  {Rejected(TRUE, "Failed to fetch"),
   Rejected(FALSE, ""),
   Response(500, "Internal Server Error", <<BodyFive>>),
   Response(404, "Not Found", <<>>),
   Response(200, "OK", <<>>)}
  \cup {Response(200, "OK", <<b>>) : b \in CycleBodies}

CycleInit ==
  /\ args \in CycleArguments
  /\ phase = "rendered"
  /\ fetchedData = Null
  /\ isLoading = FALSE
  /\ errorMessage = Null
  /\ inflight = {}
  /\ intervals = {}
  /\ cleanup = <<>>
  /\ startedBy = <<>>
  /\ completed = <<>>
  /\ rerenders = 0
  /\ survivors = {}
  /\ lastAnswer = <<>>
  /\ ResolverIdle
  /\ ApiIdle
  /\ StoreIdle

\* the request of some suspended call settles
SomeSettles == \E call \in inflight : \E answer \in CycleAnswers : Settles(call, answer)

\* some call suspended at `await response.json()` resumes
SomeParses == \E call \in inflight : \E answer \in CycleAnswers : Parses(call, answer)

CycleNext ==
  \/ Mount
  \/ Unmount
  \/ Refetch
  \/ \E iv \in intervals : Tick(iv)
  \/ SomeSettles
  \/ SomeParses

CycleSpec == CycleInit /\ [][CycleNext]_vars

\* a suspended call resumes, after either of its awaits
SomeResumes == SomeSettles \/ SomeParses

\* every request that was issued eventually settles, and every body that
\* is being read is eventually read: no call stays suspended for ever
FairCycleSpec == CycleSpec /\ WF_vars(SomeResumes)

\* the step finishes a call whose request was answered with this kind
SettlesWith(kind) ==
  /\ Finishes
  /\ lastAnswer' # <<>>
  /\ lastAnswer'[1].kind = kind

\* C11 as stated: when the request of a cycle of a mounted component is
\* answered with a status outside 200..299, the cycle ends with error
\* "HTTP <status>: <statusText>", loading false and data equal to its value
\* before the cycle started.
C11_DataAsBeforeCycle ==
  [][(Live /\ SettlesWith("response") /\ ~lastAnswer'[1].ok)
       => /\ errorMessage' = HttpMessage(lastAnswer'[1].status, lastAnswer'[1].statusText)
          /\ fetchedData' = FinishedCall.before
          /\ ~isLoading']_vars

\* C11 as amended: when the request of a cycle is answered with a status
\* outside 200..299, whatever body the response carries, the cycle ends with
\* the message "HTTP <status>: <statusText>" and leaves data as it was just
\* before it ended; in a mounted component it leaves that message in error
\* and loading false.  Data is then its value before the cycle started if
\* the cycle overlapped no other, and otherwise whatever the overlapping
\* cycles have stored meanwhile: between the start of a cycle and its end
\* only the end of another cycle changes data.
C11_HttpErrorStatus ==
  [][/\ (SettlesWith("response") /\ ~lastAnswer'[1].ok)
          => /\ LastOutcome'.message
                  = HttpMessage(lastAnswer'[1].status, lastAnswer'[1].statusText)
             /\ fetchedData' = fetchedData
             /\ ~FinishedCall.overlapped => fetchedData' = FinishedCall.before
             /\ Live => /\ errorMessage' = LastOutcome'.message
                         /\ ~isLoading'
     /\ ~Finishes => fetchedData' = fetchedData]_vars

\* C11 witness: the cycle started at mount, when data was null, got a 500
\* response whose body holds the addressed value after an overlapping cycle
\* had succeeded; the data of that cycle is still there.
C11_Witness ==
  /\ Len(completed) = 2
  /\ completed[1].ok /\ completed[1].value = Str(<<"c">>) /\ completed[1].id = 2
  /\ completed[2].id = 1 /\ completed[2].overlapped
  /\ lastAnswer = <<Response(500, "Internal Server Error", <<BodyFive>>)>>
  /\ errorMessage = HttpMessage(500, "Internal Server Error")
  /\ fetchedData = Str(<<"c">>)
  /\ ~isLoading

\* C12: the step that ends a cycle, on success and on every kind of failure,
\* ends with the call setIsLoading(false), which leaves loading false in a
\* mounted component; and when every request eventually settles, every
\* cycle that was started eventually ends.
C12_EveryCycleEndsNotLoading ==
  /\ [][Finishes => (/\ Len(completed') > 0
                     /\ LastOutcome'.cleared
                     /\ Live => ~isLoading')]_vars
  /\ \A id \in 1..MaxCycles :
       (id \in CallIds(inflight)) ~> (id \notin CallIds(inflight))

\* C12 witness: a cycle failed on a null body, the next one succeeded, no
\* call is left and loading is false.
C12_Witness ==
  /\ Len(completed) = 2
  /\ ~completed[1].ok
  /\ completed[1].message = NotFoundMessage(KeyAC, Null)
  /\ completed[2].ok
  /\ Len(startedBy) = 2
  /\ inflight = {}
  /\ ~isLoading

\* C13: in every reachable state, under every interleaving of overlapping
\* cycles, loading = true implies error = null.
C13_LoadingImpliesNoError == isLoading => errorMessage = Null

\* C13 witness: a cycle failed and set the error; the start of the next
\* cycle set loading and cleared that error.
C13_Witness ==
  /\ isLoading
  /\ errorMessage = Null
  /\ Len(completed) > 0
  /\ ~LastOutcome.ok
  /\ LastOutcome.message = HttpMessage(500, "Internal Server Error")
  /\ Len(startedBy) > LastOutcome.id
  /\ inflight # {}

\* C14: whatever the request, the JSON parsing and the path resolution
\* yield (a rejected request, an error status, invalid JSON, a body that is
\* null, a primitive, an array or an object, with or without the key), the
\* step that ends the cycle leaves the call over and has either resolved a
\* value or caught a message; in a mounted component it leaves loading false
\* and either that value in data or that message in error with data
\* untouched: a failure shows only as the error field.
C14_FailuresOnlyInErrorField ==
  [][Finishes =>
          /\ lastAnswer' # <<>>
          /\ CallIds(inflight') = CallIds(inflight) \ {FinishedCall.id}
          /\ Live => ~isLoading'
          /\ LET answer == lastAnswer'[1]
                 outcome == completed'[Len(completed')]
             IN /\ outcome.id = FinishedCall.id
                /\ outcome.cleared
                /\ IF /\ answer.kind = "response" /\ answer.ok /\ answer.body # <<>>
                      /\ parseDataKey(answer.body[1], FinishedCall.dataKey) # Undefined
                   THEN /\ outcome.ok
                        /\ outcome.value = parseDataKey(answer.body[1], FinishedCall.dataKey)
                        /\ Live => fetchedData' = outcome.value
                        /\ errorMessage' = errorMessage
                   ELSE /\ ~outcome.ok
                        /\ outcome.message.t = "message"
                        /\ Live => errorMessage' = outcome.message
                        /\ fetchedData' = fetchedData]_vars

\* C14 witness: the data key was not found in an array body and then not in
\* a number body; both cycles are over and the error is the second message.
C14_Witness ==
  /\ Len(completed) = 2
  /\ completed[1].message = NotFoundMessage(KeyAC, Arr(<<Num(5)>>))
  /\ completed[2].message = NotFoundMessage(KeyAC, Num(0))
  /\ lastAnswer = <<Response(200, "OK", <<Num(0)>>)>>
  /\ errorMessage = NotFoundMessage(KeyAC, Num(0))
  /\ fetchedData = Null
  /\ inflight = {}
  /\ ~isLoading

(***************************************************************************)
(* parseDataKey on its own                                                 *)
(***************************************************************************)
\* segments per key path
MaxSegments == 4

\* the segments of the key paths: empty, letters, digits, and " c" as in
\* "09. change"
Segments == {<<>>, <<"a">>, <<"c">>, <<"0">>, <<"1">>, <<" ", "c">>}

\* the positions after the first whose segment is a run of digits: those
\* that can be written in bracket style
IndexPositions(segs) ==
  {i \in 2..Len(segs) : Len(segs[i]) > 0 /\ AllDigits(segs[i])}

RECURSIVE JoinBracketed(_, _, _)
\* the segments from position i on, those at the positions of brackets written
\* as '[N]' and the others as '.segment'
JoinBracketed(segs, brackets, i) ==
  IF i > Len(segs) THEN <<>>
  ELSE (IF i \in brackets THEN <<"[">> \o segs[i] \o <<"]">>
        ELSE IF i = 1 THEN segs[i]
        ELSE <<".">> \o segs[i])
       \o JoinBracketed(segs, brackets, i + 1)

\* the key paths: every sequence of up to MaxSegments segments, in dotted
\* style and with any of its index segments in bracket style
Paths ==
  UNION {{JoinBracketed(segs, brackets, 1) : brackets \in SUBSET IndexPositions(segs)} :
           segs \in UNION {[1..n -> Segments] : n \in 1..MaxSegments}}

Prop(k, v) == [k |-> k, v |-> v]

\* { "a": { "c": 5 }, "a.c": 7 }
RootExactAndMerged ==
  Obj(<<Prop(<<"a">>, Obj(<<Prop(<<"c">>, Num(5))>>)),
        Prop(<<"a", ".", "c">>, Num(7))>>)

\* { "a": { "0. c": "x", "1": { "c": 1 } } }, as "Global Quote" holds "09. change"
RootQuote ==
  Obj(<<Prop(<<"a">>, Obj(<<Prop(<<"0", ".", " ", "c">>, Str(<<"x">>)),
                            Prop(<<"1">>, Obj(<<Prop(<<"c">>, Num(1))>>))>>))>>)

\* { "0. c": 1 }
RootDottedKey == Obj(<<Prop(<<"0", ".", " ", "c">>, Num(1))>>)

\* { "a.c.a.c": 1, "c.a.c": 2, "c.a": 3, "0.1.c": 4 }
RootLongKeys ==
  Obj(<<Prop(<<"a", ".", "c", ".", "a", ".", "c">>, Num(1)),
        Prop(<<"c", ".", "a", ".", "c">>, Num(2)),
        Prop(<<"c", ".", "a">>, Num(3)),
        Prop(<<"0", ".", "1", ".", "c">>, Num(4))>>)

\* { "a": [5, { "c": 7 }], "c": [] }
RootWithArray ==
  Obj(<<Prop(<<"a">>, Arr(<<Num(5), Obj(<<Prop(<<"c">>, Num(7))>>)>>)),
        Prop(<<"c">>, Arr(<<>>))>>)

\* { "0": null, "1": true, "a": "ca", "c": 5, "c.0": 9 }
RootWithPrimitives ==
  Obj(<<Prop(<<"0">>, Null), Prop(<<"1">>, Bool(TRUE)),
        Prop(<<"a">>, Str(<<"c", "a">>)), Prop(<<"c">>, Num(5)),
        Prop(<<"c", ".", "0">>, Num(9))>>)

\* { "": { "c": 1 }, ".": 3 }
RootEmptyKeys ==
  Obj(<<Prop(<<>>, Obj(<<Prop(<<"c">>, Num(1))>>)), Prop(<<".">>, Num(3))>>)

\* [[5, 7], { "a": 1 }]
RootArray == Arr(<<Arr(<<Num(5), Num(7)>>), Obj(<<Prop(<<"a">>, Num(1))>>)>>)

Roots ==
  {RootExactAndMerged, RootQuote, RootDottedKey, RootLongKeys, RootWithArray,
   RootWithPrimitives, RootEmptyKeys, RootArray, Str(<<"a", "c">>), Null}

\* no hook is rendered
HookUnused ==
  /\ args = [apiUrl |-> "", dataKey |-> <<>>, autoFetch |-> <<>>, refreshInterval |-> <<>>]
  /\ phase = "rendered"
  /\ fetchedData = Null
  /\ isLoading = FALSE
  /\ errorMessage = Null
  /\ inflight = {}
  /\ intervals = {}
  /\ cleanup = <<>>
  /\ startedBy = <<>>
  /\ completed = <<>>
  /\ rerenders = 0
  /\ survivors = {}
  /\ lastAnswer = <<>>

ResolveInit ==
  /\ root \in Roots
  /\ path \in Paths
  /\ resolved = <<>>
  /\ HookUnused
  /\ ApiIdle
  /\ StoreIdle

\* parseDataKey(root, path) is called and returns
Resolve ==
  /\ resolved = <<>>
  /\ resolved' = <<parseDataKeyTrace(root, path)>>
  /\ UNCHANGED <<root, path, args, phase, fetchedData, isLoading, errorMessage,
                  inflight, intervals, cleanup, startedBy, completed, rerenders,
                  survivors, lastAnswer, apiVars, storeVars>>

ResolveNext == Resolve

ResolveSpec == ResolveInit /\ [][ResolveNext]_vars

\* the parts the call walked, its iterations and its return value
Parts == Split(Normalize(path))

Steps == resolved[1].steps

Returned == resolved[1].value

\* the cursor after iteration k
CursorAfter(k) == IF k < Len(Steps) THEN Steps[k + 1].cursor ELSE Returned

\* the call has returned
Resolved == resolved # <<>>

\* C15: at every iteration whose cursor has an own property named exactly
\* by the current segment, the resolver descends into that property and
\* consumes that segment only, also when a merged key made of that segment
\* and the following ones is an own property too.
C15_ExactKeyFirst ==
  Resolved =>
    \A k \in 1..Len(Steps) :
      (/\ Steps[k].cursor.t \notin {"null", "undefined"}
       /\ HasOwn(Steps[k].cursor, Parts[Steps[k].at]))
        => /\ Steps[k].kind = "exact"
           /\ Steps[k].upto = Steps[k].at
           /\ CursorAfter(k) = GetOwn(Steps[k].cursor, Parts[Steps[k].at])

\* C15 witness: { "a": { "c": 5 }, "a.c": 7 } resolved along "a.c" gives 5,
\* the value under the exact key "a", not 7.
C15_Witness ==
  /\ Resolved
  /\ root = RootExactAndMerged
  /\ path = <<"a", ".", "c">>
  /\ HasOwn(root, MergedKey(Parts, 1, 2))
  /\ Steps[1].kind = "exact"
  /\ Returned = Num(5)

\* iteration k neither finds its segment as an own key nor takes it as an
\* array index
NeedsMerge(k) ==
  /\ Steps[k].cursor.t \notin {"null", "undefined"}
  /\ ~HasOwn(Steps[k].cursor, Parts[Steps[k].at])
  /\ ~(Steps[k].cursor.t = "array" /\ ~ToNumber(Parts[Steps[k].at]).nan)

\* iteration k descends into the key merged from its segment up to segment j
\* and the walk goes on after segment j
MergesUpTo(k, j) ==
  /\ Steps[k].kind = "merge"
  /\ Steps[k].upto = j
  /\ CursorAfter(k) = GetOwn(Steps[k].cursor, MergedKey(Parts, Steps[k].at, j))
  /\ IF j < Len(Parts)
     THEN k < Len(Steps) /\ Steps[k + 1].at = j + 1
     ELSE k = Len(Steps)

\* C16: when the current segment is neither an own key nor taken as an array
\* index, the segment joined by '.' with the next one is tried, then the
\* segment joined with the next two; the resolver descends into the first of
\* these that is an own property and continues after the last merged segment.
C16_GreedyMerge ==
  Resolved =>
    \A k \in 1..Len(Steps) :
      NeedsMerge(k) =>
        LET at == Steps[k].at
        IN IF at + 1 <= Len(Parts) /\ HasOwn(Steps[k].cursor, MergedKey(Parts, at, at + 1))
           THEN MergesUpTo(k, at + 1)
           ELSE (at + 2 <= Len(Parts) /\ HasOwn(Steps[k].cursor, MergedKey(Parts, at, at + 2)))
                  => MergesUpTo(k, at + 2)

\* C16 witness: { "a": { "0. c": "x", ... } } resolved along "a.0. c" (as
\* 'Global Quote.09. change') gives "x" through the key merged from "0" and
\* " c".
C16_Witness ==
  /\ Resolved
  /\ root = RootQuote
  /\ path = <<"a", ".", "0", ".", " ", "c">>
  /\ Len(Steps) = 2
  /\ Steps[1].kind = "exact"
  /\ Steps[2].kind = "merge" /\ Steps[2].at = 2 /\ Steps[2].upto = 3
  /\ Returned = Str(<<"x">>)

\* no key merged from the segment of iteration k and the next one or two
\* is an own property of its cursor
NoMergeHit(k) ==
  \A j \in (Steps[k].at + 1)..(Steps[k].at + 2) :
    j <= Len(Parts) => ~HasOwn(Steps[k].cursor, MergedKey(Parts, Steps[k].at, j))

\* C17: a merged key spans the current segment and at most the two that
\* follow: no iteration consumes more than three segments, and when neither
\* the segment, nor an index, nor a key merged from two or three segments
\* matches, the path is not found, also when a key spanning four or more
\* segments is present.
C17_MergeWindowBounded ==
  Resolved =>
    \A k \in 1..Len(Steps) :
      /\ Steps[k].upto <= Steps[k].at + 2
      /\ (NeedsMerge(k) /\ NoMergeHit(k))
           => /\ Steps[k].kind = "notfound"
              /\ k = Len(Steps)
              /\ Returned = Undefined

\* C17 witness: { "a.c.a.c": 1, ... } resolved along "a.c.a.c" is not found,
\* although the key made of all four segments is an own property.
C17_Witness ==
  /\ Resolved
  /\ root = RootLongKeys
  /\ path = <<"a", ".", "c", ".", "a", ".", "c">>
  /\ Len(Parts) = 4
  /\ HasOwn(root, MergedKey(Parts, 1, 4))
  /\ Steps = <<Step("notfound", root, 1, 1)>>
  /\ Returned = Undefined

\* the positions of the dots of the path
Dots == {p \in 1..Len(path) : path[p] = "."}

\* the root is an object, the whole path is one of its own keys and holds one
\* dot (as '09. change' does), and what stands before the dot is no own key
DottedOwnKey ==
  /\ root.t = "object"
  /\ HasOwn(root, path)
  /\ Cardinality(Dots) = 1
  /\ ~HasOwn(root, SubSeq(path, 1, (CHOOSE p \in Dots : TRUE) - 1))

\* C18 as stated: for an object with the own key '09. change', the path
\* '09. change' returns the key's value through the exact-key step, the
\* greedy merge not being used.
C18_DottedKeyByExactStep ==
  (Resolved /\ DottedOwnKey)
    => /\ Returned = GetOwn(root, path)
       /\ \A k \in 1..Len(Steps) : Steps[k].kind = "exact"

\* C18 corrected: for an object with the own key '09. change', the path
\* '09. change' returns the key's value, and it does so through the greedy
\* merge: the path is split at its dot, the first segment is no own key, and
\* the key merged from the two segments is.
C18_DottedKeyByMerge ==
  (Resolved /\ DottedOwnKey)
    => /\ Returned = GetOwn(root, path)
       /\ Steps = <<Step("merge", root, 1, 2)>>

\* C18 witness: { "0. c": 1 } resolved along "0. c" returned 1.
C18_Witness ==
  /\ Resolved
  /\ root = RootDottedKey
  /\ path = <<"0", ".", " ", "c">>
  /\ DottedOwnKey
  /\ Parts = << <<"0">>, <<" ", "c">> >>
  /\ Returned = Num(1)

\* C19: whenever an iteration starts at a cursor that is a string, a number,
\* a boolean, null or undefined (so a segment remains), the path is not
\* found: no segment is resolved against a primitive value.
C19_PrimitiveCursorNotFound ==
  Resolved =>
    \A k \in 1..Len(Steps) :
      Steps[k].cursor.t \in {"string", "number", "boolean", "null", "undefined"}
        => /\ Returned = Undefined
           /\ Steps[k].kind \in {"nullish", "notfound"}

\* the segment is a non-negative integer in decimal digits
IsNonNegativeInteger(segment) == Len(segment) > 0 /\ AllDigits(segment)

\* C20: at an array cursor of which the current segment is no own property,
\* the resolver descends by index only if the segment is a non-negative
\* integer; for any other segment, the empty one included, no index is taken:
\* the iteration is a greedy merge or the path is not found.
C20_IndexOnlyForNonNegativeInteger ==
  Resolved =>
    \A k \in 1..Len(Steps) :
      (/\ Steps[k].cursor.t = "array"
       /\ ~HasOwn(Steps[k].cursor, Parts[Steps[k].at])
       /\ ~IsNonNegativeInteger(Parts[Steps[k].at]))
        => /\ Steps[k].kind \in {"merge", "notfound"}
           /\ Steps[k].kind = "notfound" => Returned = Undefined

\* iteration k addresses a missing branch: its segment is no own key of the
\* cursor, no index within the bounds of an array cursor, and no key merged
\* from it and the next one or two segments is an own key
MissingAt(k) ==
  /\ Steps[k].cursor.t \notin {"null", "undefined"}
  /\ ~HasOwn(Steps[k].cursor, Parts[Steps[k].at])
  /\ ~(/\ Steps[k].cursor.t = "array"
       /\ IsNonNegativeInteger(Parts[Steps[k].at])
       /\ DecimalValue(Parts[Steps[k].at]) < Len(Steps[k].cursor.e))
  /\ NoMergeHit(k)

\* every iteration descended into a present own key or element
AllPresent ==
  \A k \in 1..Len(Steps) :
    /\ Steps[k].kind \in {"exact", "merge"}
    /\ CursorAfter(k) # Undefined

\* C21: a path that addresses a missing branch returns undefined, the
\* not-found value; a path that addresses a present key whose value is null
\* returns null, which is a different value.
C21_MissingIsNotNull ==
  Resolved =>
    /\ (\E k \in 1..Len(Steps) : MissingAt(k)) => Returned = Undefined
    /\ (Len(Steps) > 0 /\ AllPresent) => Returned # Undefined
    /\ Null # Undefined

\* the positions of the path at which an index in brackets, '[' digits ']',
\* starts
BracketStarts ==
  {p \in 1..Len(path) :
     /\ path[p] = "["
     /\ DigitRunEnd(path, p + 1) >= p + 1
     /\ DigitRunEnd(path, p + 1) < Len(path)
     /\ path[DigitRunEnd(path, p + 1) + 1] = "]"}

\* the path with the '[N]' that starts at position p written as '.N'
Dotted(p) ==
  SubSeq(path, 1, p - 1) \o <<".">>
    \o SubSeq(path, p + 1, DigitRunEnd(path, p + 1))
    \o SubSeq(path, DigitRunEnd(path, p + 1) + 2, Len(path))

\* C22: for every root and every path, writing any '[N]' of the path as '.N'
\* gives a path with the same result.
C22_BracketEqualsDotted ==
  Resolved => \A p \in BracketStarts : parseDataKey(root, Dotted(p)) = Returned

\* C22 witness: { "a": [5, { "c": 7 }], ... } resolved along "a[1].c" gives
\* 7, as "a.1.c" does.
C22_Witness ==
  /\ Resolved
  /\ root = RootWithArray
  /\ path = <<"a", "[", "1", "]", ".", "c">>
  /\ BracketStarts = {2}
  /\ Dotted(2) = <<"a", ".", "1", ".", "c">>
  /\ Returned = Num(7)

\* C23: the empty path returns the root itself, for every root (object,
\* array, primitive or null), without walking any segment.
C23_EmptyPathIsRoot ==
  (Resolved /\ Len(path) = 0) => (Returned = root /\ Steps = <<>>)

\* C23 witness: null resolved along "" gives null.
C23_Witness ==
  /\ Resolved
  /\ path = <<>>
  /\ root = Null
  /\ Returned = Null

\* C28: the resolver never backtracks: when the cursor of an iteration has
\* the segment as an own key and the walk from that key's value along the
\* remaining segments ends nowhere, the whole path is not found, also when
\* the same cursor has the merged key as an own property; and the segments
\* are consumed once, in order, by a single traversal.
C28_NoBacktracking ==
  Resolved =>
    /\ \A k \in 1..Len(Steps) :
         (/\ Steps[k].cursor.t \notin {"null", "undefined"}
          /\ HasOwn(Steps[k].cursor, Parts[Steps[k].at])
          /\ Walk(GetOwn(Steps[k].cursor, Parts[Steps[k].at]), Parts,
                  Steps[k].at + 1, <<>>).value = Undefined)
           => Returned = Undefined
    /\ Len(Steps) > 0 => Steps[1].at = 1
    /\ \A k \in 1..(Len(Steps) - 1) : Steps[k + 1].at = Steps[k].upto + 1

\* C28 witness: { "c": 5, "c.0": 9, ... } resolved along "c.0" is not found:
\* "c" was consumed by the exact key, "0" finds nothing in 5, and the key
\* "c.0" of the root is not tried.
C28_Witness ==
  /\ Resolved
  /\ root = RootWithPrimitives
  /\ path = <<"c", ".", "0">>
  /\ HasOwn(root, path)
  /\ Steps = <<Step("exact", root, 1, 1), Step("notfound", Num(5), 2, 2)>>
  /\ Returned = Undefined

(***************************************************************************)
(* The loading flag and the configuration of a response                    *)
(***************************************************************************)
\* C27 as stated: in every reachable state of a mounted component loading is
\* true whenever at least one request is in flight.
C27_LoadingWhileInFlight == (Live /\ inflight # {}) => isLoading

\* C27 corrected: in a mounted component loading = true implies that a
\* request is in flight, and a request that has overlapped no other keeps
\* loading true while it is in flight; when cycles overlap, the first to end
\* sets loading false while the others are still in flight.
C27_LoadingUntilFirstEnd ==
  Live => /\ isLoading => inflight # {}
          /\ \A c \in inflight : ~c.overlapped => isLoading

\* C27 witness: of two overlapping cycles one has ended; the other is still
\* in flight and loading is false.
C27_Witness ==
  /\ Len(startedBy) = 2
  /\ Len(completed) = 1
  /\ Cardinality(inflight) = 1
  /\ \A c \in inflight : c.overlapped
  /\ ~isLoading

\* C26: the response to a request issued under an apiUrl or dataKey that is
\* no longer the one of the hook's latest render never updates data or error
\* (the component is mounted: after the unmount nothing updates them).
C26_StaleConfigurationIgnored ==
  [][(/\ Live
      /\ Finishes
      /\ \/ FinishedCall.apiUrl # args.apiUrl
         \/ FinishedCall.dataKey # args.dataKey)
       => (fetchedData' = fetchedData /\ errorMessage' = errorMessage)]_vars

(***************************************************************************)
(* ApiService: the response cache and the map of requests in flight        *)
(***************************************************************************)

\* bounds of the ApiService model
MaxCalls == 2
MaxAdvances == 2

\* config.ts: the cache duration, in seconds
CACHE_DURATION == 300

\* the parameter names of the model, in the order of localeCompare
LocaleOrder == <<"symbol", "token">>

LocaleRank(name) == CHOOSE r \in 1..Len(LocaleOrder) : LocaleOrder[r] = name

\* Object.entries(params): the [name, value] pairs in insertion order
Entry(name, value) == [name |-> name, value |-> value]

\* entries.sort(([keyA], [keyB]) => keyA.localeCompare(keyB))
RECURSIVE SortEntries(_)
SortEntries(entries) ==
  IF entries = <<>> THEN <<>>
  ELSE LET first ==
             CHOOSE q \in 1..Len(entries) :
               \A o \in 1..Len(entries) :
                 \/ LocaleRank(entries[q].name) < LocaleRank(entries[o].name)
                 \/ LocaleRank(entries[q].name) = LocaleRank(entries[o].name) /\ q <= o
           rest == [o \in 1..(Len(entries) - 1) |->
                      IF o < first THEN entries[o] ELSE entries[o + 1]]
       IN <<entries[first]>> \o SortEntries(rest)

\* .map(([key, value]) => `${key}=${value}`).join('&')
RECURSIVE JoinEntries(_)
JoinEntries(entries) ==
  IF entries = <<>> THEN <<>>
  ELSE <<entries[1].name, "=", entries[1].value>>
       \o (IF Len(entries) = 1 THEN <<>> ELSE <<"&">> \o JoinEntries(Tail(entries)))

\* getCacheKey: `${url}?${paramString}`, as the sequence of its pieces
getCacheKey(url, params) == <<url, "?">> \o JoinEntries(SortEntries(params))

\* the calls of the model: one quote in both parameter orders, and another
QuoteUrl == "https://finnhub.io/api/v1/quote"
ApiRequests ==
  { [url |-> QuoteUrl, params |-> <<Entry("symbol", "AAPL"), Entry("token", "k")>>],
    [url |-> QuoteUrl, params |-> <<Entry("token", "k"), Entry("symbol", "AAPL")>>],
    [url |-> QuoteUrl, params |-> <<Entry("symbol", "MSFT"), Entry("token", "k")>>] }

\* what axios.get can answer
NoteField == <<"N", "o", "t", "e">>
ErrorMessageField == <<"E", "r", "r", "o", "r", " ", "M", "e", "s", "s", "a", "g", "e">>
QuoteBody == Obj(<<Prop(<<"c">>, Num(5))>>)
NoteBody == Obj(<<Prop(NoteField, Str(<<"rate limit">>))>>)
ErrorMessageBody == Obj(<<Prop(ErrorMessageField, Str(<<"invalid symbol">>))>>)
\* a response without content: axios gives the empty string as data
EmptyBody == Str(<<>>)
TransportError(message) == [rejected |-> TRUE, message |-> message]
Answered(data) == [rejected |-> FALSE, data |-> data]
ApiAnswers ==
  { TransportError(Str(<<"timeout">>)), Answered(QuoteBody), Answered(NoteBody),
    Answered(ErrorMessageBody), Answered(EmptyBody) }

\* the elapsed times of the model, in milliseconds: the next instant, and
\* one millisecond less than the cache duration
Delays == {1, CACHE_DURATION * 1000 - 1}

FailedToFetch == Str(<<"Failed to fetch data from API">>)

\* isCacheValid
isCacheValid(cacheEntry) == clock - cacheEntry.timestamp < CACHE_DURATION * 1000

\* this.cache[cacheKey], or nothing
CacheEntries(cacheKey) == {e \in cache : e.key = cacheKey}

\* getFromCache
getFromCache(cacheKey) ==
  IF \E e \in CacheEntries(cacheKey) : isCacheValid(e)
  THEN (CHOOSE e \in CacheEntries(cacheKey) : TRUE).data
  ELSE Null

\* setCache: the cache after this.cache[cacheKey] = { data, timestamp }
setCache(cacheKey, data) ==
  (cache \ CacheEntries(cacheKey))
    \cup {[key |-> cacheKey, data |-> data, timestamp |-> clock]}

\* response.data?.Note and response.data?.['Error Message']: only the
\* objects of the model have properties of their own
Field(data, name) ==
  IF data.t = "object" /\ HasOwn(data, name) THEN GetOwn(data, name) ELSE Undefined

\* a || b
OrElse(a, b) == IF Truthy(a) THEN a ELSE b

Rejection(message) == [ok |-> FALSE, value |-> OrElse(message, FailedToFetch)]

\* makeRequest, from the answer of axios.get on: the outcome of the request
\* promise and the cache it leaves
makeRequest(cacheKey, answer) ==
  IF answer.rejected
  THEN [outcome |-> Rejection(answer.message), cache |-> cache]
  ELSE IF Truthy(Field(answer.data, NoteField))
          \/ Truthy(Field(answer.data, ErrorMessageField))
       THEN [outcome |-> Rejection(OrElse(Field(answer.data, NoteField),
                                          Field(answer.data, ErrorMessageField))),
             cache |-> cache]
       ELSE [outcome |-> [ok |-> TRUE, value |-> answer.data],
             cache |-> setCache(cacheKey, answer.data)]

\* a fetchWithCache that never waits for a request in flight
ServeWithoutQueue(cacheKey) ==
  IF Truthy(getFromCache(cacheKey)) THEN "cache" ELSE "request"

\* fetchWithCache, lines 105 to 117: how the call is served
Serve(cacheKey) ==
  IF Truthy(getFromCache(cacheKey)) THEN "cache"
  ELSE IF \E q \in requestQueue : q.key = cacheKey THEN "dedup"
  ELSE "request"

\* the requests in flight for a cache key
InFlight(cacheKey) == {p \in pending : p.key = cacheKey}

\* what has happened to a cache key so far: the last response stored for
\* it and not cleared since, if any, and its last event: a call, a success,
\* or a failure by a transport error or by a provider's error field
Past(cacheKey) ==
  IF cacheKey \in DOMAIN history THEN history[cacheKey]
  ELSE [stored |-> <<>>, last |-> "none"]

Remember(cacheKey, past) ==
  [k \in DOMAIN history \cup {cacheKey} |-> IF k = cacheKey THEN past ELSE history[k]]

\* fetchWithCache up to its await: the cache is read, then the queue, and
\* otherwise makeRequest calls axios.get and the promise is queued.  The
\* promise a deduplicated call gets from the queue may have settled already:
\* its outcome is then the outcome of the call
fetchWithCache(url, params) ==
  LET cacheKey == getCacheKey(url, params)
      how == Serve(cacheKey)
      id == apiCalls + 1
      queued == CHOOSE q \in requestQueue : q.key = cacheKey
      promise ==
        CASE how = "cache" -> 0
          [] how = "dedup" -> queued.promise
          [] OTHER -> id
  IN /\ apiCalls < MaxCalls
     /\ apiCalls' = id
     /\ lastCall' =
          <<[url |-> url, params |-> params, key |-> cacheKey, time |-> clock,
             how |-> how, promise |-> promise,
             data |-> IF how = "cache" THEN getFromCache(cacheKey) ELSE Undefined,
             inFlight |-> {p.promise : p \in InFlight(cacheKey)},
             past |-> Past(cacheKey),
             outcome |-> IF how = "dedup" THEN queued.settled ELSE <<>>]>>
     /\ history' = Remember(cacheKey, [Past(cacheKey) EXCEPT !.last = "called"])
     /\ IF how = "request"
        THEN /\ pending' = pending \cup
                  {[promise |-> id, key |-> cacheKey, url |-> url, params |-> params]}
             /\ requestQueue' = requestQueue \cup
                  {[key |-> cacheKey, promise |-> id, settled |-> <<>>]}
        ELSE UNCHANGED <<pending, requestQueue>>
     /\ UNCHANGED <<cache, clock, advances>>
     /\ UNCHANGED <<hookVars, resolverVars, storeVars>>

\* fetchWithCache, finally: this.requestQueue.delete(cacheKey)
QueueAfter(cacheKey) == {q \in requestQueue : q.key # cacheKey}

\* axios.get settles and makeRequest runs to its end: the response is stored
\* and the request promise resolves, or the promise rejects.  The queue keeps
\* the promise, now settled, until the first caller resumes.
AxiosSettles(request, answer) ==
  LET made == makeRequest(request.key, answer)
  IN /\ request \in pending
     /\ pending' = pending \ {request}
     /\ cache' = made.cache
     /\ requestQueue' =
          {IF q.promise = request.promise THEN [q EXCEPT !.settled = <<made.outcome>>] ELSE q :
             q \in requestQueue}
     /\ lastCall' =
          IF lastCall # <<>> /\ lastCall[1].promise = request.promise
          THEN <<[lastCall[1] EXCEPT !.outcome = <<made.outcome>>]>>
          ELSE lastCall
     /\ history' = Remember(request.key,
          IF made.outcome.ok
          THEN [Past(request.key) EXCEPT
                  !.stored = <<[data |-> made.outcome.value, at |-> clock]>>,
                  !.last = "succeeded"]
          ELSE [Past(request.key) EXCEPT
                  !.last = IF answer.rejected THEN "transport error"
                           ELSE "provider error"])
     /\ UNCHANGED <<clock, advances, apiCalls>>
     /\ UNCHANGED <<hookVars, resolverVars, storeVars>>

\* the call that issued a request resumes after `await requestPromise`, in a
\* microtask after the promise has settled: it returns the data or rethrows,
\* and its finally deletes the queue entry of the cache key
FirstCallerResumes(entry) ==
  /\ entry \in requestQueue
  /\ entry.settled # <<>>
  /\ requestQueue' = QueueAfter(entry.key)
  /\ UNCHANGED <<cache, pending, clock, advances, apiCalls, lastCall, history>>
  /\ UNCHANGED <<hookVars, resolverVars, storeVars>>

\* clearCache: this.cache = {}; no stored response is left for any key
clearCache ==
  /\ cache' = {}
  /\ history' = [k \in DOMAIN history |-> [history[k] EXCEPT !.stored = <<>>]]
  /\ UNCHANGED <<requestQueue, pending, clock, advances, apiCalls, lastCall>>
  /\ UNCHANGED <<hookVars, resolverVars, storeVars>>

\* time passes: Date.now() grows
AdvanceClock(delay) ==
  /\ advances < MaxAdvances
  /\ advances' = advances + 1
  /\ clock' = clock + delay
  /\ UNCHANGED <<cache, requestQueue, pending, apiCalls, lastCall, history>>
  /\ UNCHANGED <<hookVars, resolverVars, storeVars>>

SomeFetchWithCache == \E r \in ApiRequests : fetchWithCache(r.url, r.params)

SomeAxiosSettles == \E request \in pending, answer \in ApiAnswers : AxiosSettles(request, answer)

SomeFirstCallerResumes == \E entry \in requestQueue : FirstCallerResumes(entry)

SomeAdvanceClock == \E delay \in Delays : AdvanceClock(delay)

ApiInit ==
  /\ ApiIdle
  /\ HookUnused
  /\ ResolverIdle
  /\ StoreIdle

ApiNext ==
  \/ SomeFetchWithCache
  \/ SomeAxiosSettles
  \/ SomeFirstCallerResumes
  \/ clearCache
  \/ SomeAdvanceClock

ApiSpec == ApiInit /\ [][ApiNext]_vars

\* the call of fetchWithCache made last
Call == lastCall[1]

\* C24: at most one HTTP request is in flight per cache key, and the key
\* does not depend on the order of the parameters; a call made while a
\* request for its key is in flight issues no request of its own and
\* holds the promise of the request in flight, so it receives its outcome;
\* every deduplicated call holds a promise that is pending or delivers the
\* outcome of its request
C24_OneRequestPerKey ==
  /\ \A p, q \in pending : p.key = q.key => p = q
  /\ \A r, o \in ApiRequests :
       (r.url = o.url /\ {r.params[q] : q \in DOMAIN r.params}
                         = {o.params[q] : q \in DOMAIN o.params})
         => getCacheKey(r.url, r.params) = getCacheKey(o.url, o.params)
  /\ (lastCall # <<>> /\ Call.inFlight # {})
       => /\ Call.how = "dedup"
          /\ Call.promise \in Call.inFlight
  /\ (lastCall # <<>> /\ Call.how = "dedup")
       => \/ \E p \in pending : p.promise = Call.promise /\ p.key = Call.key
          \/ Call.outcome # <<>>

\* a call waits for the request another call has in flight for the same
\* parameters written in the other order
C24_Witness ==
  /\ lastCall # <<>>
  /\ Call.how = "dedup"
  /\ \E p \in pending :
       /\ p.promise = Call.promise
       /\ p.params # Call.params
       /\ Cardinality(pending) = 1

\* C25: once a response is stored for a cache key (and until clearCache
\* drops it), a call made less than
\* CACHE_DURATION seconds after the storing returns the stored data and
\* issues no request; a call made CACHE_DURATION seconds or more after it
\* issues a request, whose response replaces the entry
C25_CachedForDuration ==
  /\ (lastCall # <<>> /\ Call.past.stored # <<>>)
       => IF Call.time - Call.past.stored[1].at < CACHE_DURATION * 1000
          THEN Call.how = "cache" /\ Call.data = Call.past.stored[1].data
          ELSE Call.how = "request"
  /\ \A k \in DOMAIN history :
       history[k].stored # <<>>
         => CacheEntries(k) = {[key |-> k, data |-> history[k].stored[1].data,
                                timestamp |-> history[k].stored[1].at]}

\* C29: a failed request stores nothing (every cache entry is the response
\* of a successful request); once a request has settled, failed or
\* successful, a call no longer finds its promise in the queue (a call is
\* deduplicated only against a request in flight); and the call that
\* follows a failure for its cache key issues a request
C29_FailureLeavesNoTrace ==
  /\ \A e \in cache :
       Past(e.key).stored = <<[data |-> e.data, at |-> e.timestamp]>>
  /\ (lastCall # <<>> /\ Call.how = "dedup") => Call.inFlight # {}
  /\ (lastCall # <<>> /\ Call.past.last \in {"transport error", "provider error"})
       => Call.how = "request"

(***************************************************************************)
(* useDashboardStore: the widget list                                      *)
(***************************************************************************)

\* bound of the store model: how many widgets are ever added
MaxWidgets == 3

WidgetTypes == {"card", "table"}

\* the indices a caller may pass: in range, negative, and past the end
Indices == -1..MaxWidgets

Larger(a, b) == IF a > b THEN a ELSE b

\* Array.prototype.splice: where a start index lands in a list of len items
SpliceStart(len, start) ==
  IF start < 0 THEN Larger(len + start, 0) ELSE Min(start, len)

\* list.splice(start, 1): the items removed, and the list left
SpliceOut(list, start) ==
  LET at == SpliceStart(Len(list), start)
  IN IF at < Len(list)
     THEN [removed |-> <<list[at + 1]>>,
           list |-> SubSeq(list, 1, at) \o SubSeq(list, at + 2, Len(list))]
     ELSE [removed |-> <<>>, list |-> list]

\* list.splice(start, 0, item): the list with the item inserted
SpliceIn(list, start, item) ==
  LET at == SpliceStart(Len(list), start)
  IN SubSeq(list, 1, at) \o <<item>> \o SubSeq(list, at + 1, Len(list))

\* const [moved] = ...: the first item of an array, undefined if it is empty
First(items) == IF items = <<>> THEN Undefined ELSE items[1]

\* the earlier reorderWidgets, without the guard on the indices
ReorderedUnguarded(list, fromIndex, toIndex) ==
  LET out == SpliceOut(list, fromIndex)
  IN SpliceIn(out.list, toIndex, First(out.removed))

\* reorderWidgets: the list the callback of set returns
Reordered(list, fromIndex, toIndex) ==
  LET count == Len(list)
      out == SpliceOut(list, fromIndex)
  IN IF fromIndex < 0 \/ fromIndex >= count \/ toIndex < 0 \/ toIndex >= count
     THEN list
     ELSE SpliceIn(out.list, toIndex, First(out.removed))

addWidget(type) ==
  /\ nextId < MaxWidgets
  /\ nextId' = nextId + 1
  /\ widgets' = Append(widgets, [id |-> nextId + 1, type |-> type])
  /\ lastOp' = [op |-> "add"]
  /\ UNCHANGED <<hookVars, resolverVars, apiVars>>

removeWidget(id) ==
  /\ widgets' = SelectSeq(widgets, LAMBDA w : w.id # id)
  /\ lastOp' = [op |-> "remove"]
  /\ UNCHANGED <<nextId, hookVars, resolverVars, apiVars>>

updateWidget(id, type) ==
  /\ widgets' = [q \in 1..Len(widgets) |->
                   IF widgets[q].id = id THEN [widgets[q] EXCEPT !.type = type]
                   ELSE widgets[q]]
  /\ lastOp' = [op |-> "update"]
  /\ UNCHANGED <<nextId, hookVars, resolverVars, apiVars>>

reorderWidgets(fromIndex, toIndex) ==
  /\ widgets' = Reordered(widgets, fromIndex, toIndex)
  /\ lastOp' = [op |-> "reorder", fromIndex |-> fromIndex, toIndex |-> toIndex,
                before |-> widgets]
  /\ UNCHANGED <<nextId, hookVars, resolverVars, apiVars>>

resetWidgets ==
  /\ widgets' = <<>>
  /\ lastOp' = [op |-> "reset"]
  /\ UNCHANGED <<nextId, hookVars, resolverVars, apiVars>>

SomeAddWidget == \E type \in WidgetTypes : addWidget(type)

SomeRemoveWidget == \E id \in 1..MaxWidgets : removeWidget(id)

SomeUpdateWidget == \E id \in 1..MaxWidgets, type \in WidgetTypes : updateWidget(id, type)

SomeReorderWidgets == \E fromIndex \in Indices, toIndex \in Indices : reorderWidgets(fromIndex, toIndex)

StoreInit ==
  /\ StoreIdle
  /\ HookUnused
  /\ ResolverIdle
  /\ ApiIdle

StoreNext ==
  \/ SomeAddWidget
  \/ SomeRemoveWidget
  \/ SomeUpdateWidget
  \/ SomeReorderWidgets
  \/ resetWidgets

StoreSpec == StoreInit /\ [][StoreNext]_vars

\* the list before the last reorderWidgets, and its indices
Before == lastOp.before
InRange(index) == 0 <= index /\ index < Len(Before)

\* the items of a list other than one item, in their order
Others(list, item) == SelectSeq(list, LAMBDA w : w # item)

\* C30: reorderWidgets yields a permutation of the list before it, without
\* undefined entries; with both indices in range the widget at fromIndex is
\* at toIndex afterwards and the other widgets keep their relative order,
\* and with an index out of range the list is unchanged
C30_ReorderIsPermutation ==
  lastOp.op = "reorder" =>
    /\ Len(widgets) = Len(Before)
    /\ \A q \in 1..Len(widgets) : widgets[q] # Undefined
    /\ \A q \in 1..Len(Before) :
         Cardinality({o \in 1..Len(widgets) : widgets[o] = Before[q]})
           = Cardinality({o \in 1..Len(Before) : Before[o] = Before[q]})
    /\ IF InRange(lastOp.fromIndex) /\ InRange(lastOp.toIndex)
       THEN /\ widgets[lastOp.toIndex + 1] = Before[lastOp.fromIndex + 1]
            /\ Others(widgets, Before[lastOp.fromIndex + 1])
                 = Others(Before, Before[lastOp.fromIndex + 1])
       ELSE widgets = Before

\* the first of three widgets has been moved to the end
C30_Witness ==
  /\ lastOp.op = "reorder"
  /\ Len(Before) = 3
  /\ lastOp.fromIndex = 0
  /\ lastOp.toIndex = 2
  /\ widgets = <<Before[2], Before[3], Before[1]>>

====
